---- MODULE Spec2Model ----
(***************************************************************************)
(* Model of src/app.py: a Streamlit script that records or accepts         *)
(* uploaded audio and hands it to a Whisper pipeline.  Streamlit executes  *)
(* the whole script, top to bottom, once for the first page load and once  *)
(* more after every widget interaction; pc is the position of the current  *)
(* script run, "idle" between runs.  An interaction made while a run is in *)
(* progress abandons that run at its next st.* call.                       *)
(***************************************************************************)
EXTENDS Integers, Sequences, FiniteSets, TLC

VARIABLES
    SOUNDDEVICE_AVAILABLE,  \* line 10-14: import sounddevice succeeded
    LIBROSA_AVAILABLE,      \* line 17-21: import librosa succeeded
    language,               \* line 39: value of the selectbox
    uploaded_file,          \* line 81: value of the file uploader
    record_btn,             \* line 45: TRUE in the run the record button triggered
    transcribe_btn,         \* line 98: TRUE in the run the transcribe button triggered
    pc,                     \* position of the script run
    constructions,          \* number of pipeline(...) calls so far (line 33)
    transcriber,            \* identity of the pipeline object bound at line 33
    audio,                  \* line 51: the recorded array
    tmp_file,               \* line 59 / line 90: the temporary file of the request
    audio_data,             \* line 123: the array librosa.load returned
    kwargs,                 \* line 66 / line 102
    transcription,          \* line 67 / 109 / 114 / 129 / 138
    attempts,               \* history: the strategies attempted in this run
    warnings,               \* st.warning messages of this run (lines 117, 132)
    caught,                 \* direct_error / librosa_error / alt_error: the exception
                            \* the innermost except clause has caught
    e,                      \* line 70, 152: the exception on its way to a handler
    rec_outcome,            \* what the run displayed as the recording's result
    rec_shown,              \* line 69: text placed in the recording's text area
    rec_message,            \* line 71: str(e) placed in "Recording failed"
    outcome,                \* what the run displayed as the upload request's result
    shown,                  \* line 148: text placed in the upload's text area
    message,                \* line 153: str(e) placed in "Transcription failed"
    uncaught,               \* an exception left the script uncaught
    tmp_live,               \* temporary files created and not deleted
    installed,              \* environment: the modules whose import succeeds
    oserror,                \* environment: the modules whose import raises OSError
    duration,               \* line 44: value of the slider
    page,                   \* the widgets on the page, stale ones included
    rendered,               \* the widgets this run has placed on the page
    merged,                 \* interactions merged into the run request not yet begun
    probes,                 \* number of executions of the import probes (line 9-21)
    site,                   \* float-to-int16 conversion: where it was applied
    sample_num,             \* the input sample is sample_num / sample_den
    sample_den,
    sample_raw,             \* the float32 product truncated, before the int16 cast
    sample_out              \* the int16 value produced

vars == <<SOUNDDEVICE_AVAILABLE, LIBROSA_AVAILABLE, language, uploaded_file,
          record_btn, transcribe_btn, pc, constructions, transcriber, audio,
          tmp_file, audio_data, kwargs, transcription, attempts, warnings,
          caught, e,
          rec_outcome, rec_shown, rec_message,
          outcome, shown, message, uncaught, tmp_live, installed, oserror,
          duration, page, rendered, merged, probes,
          site, sample_num, sample_den, sample_raw, sample_out>>

(***************************************************************************)
(* Bounds and input sets                                                   *)
(***************************************************************************)
\* number of script runs explored in one process lifetime
MaxRuns == 4

\* number of interactions merged into one request for a run
MaxMerged == 1

\* number of options of the language selectbox the user chooses among
MaxLanguages == 2

\* the samples converted are the float32 values n / 2^k of [-1.0, 1.0],
\* 0 <= k <= MaxExp, each in lowest terms
MaxExp == 16

\* line 51, 60, 123, 128: the sample rate the code records, loads and writes at
SampleRate == 16000

\* line 39: the options of the language selectbox, in the order of the list
LanguageOptions == <<"auto", "en", "ur", "hi", "fr", "es">>

\* line 39: the options the user chooses among; the first is the default
Languages == {LanguageOptions[i] : i \in 1..MaxLanguages}

\* line 83: the extensions the uploader accepts
Extensions == {"wav", "mp3", "m4a", "flac", "ogg"}

CompressedExtensions == {"mp3", "m4a", "flac", "ogg"}

\* An audio object: a file (ext is its suffix) or an array (ext = "ndarray").
NoFile == [ext |-> "none", rate |-> 0, channels |-> 0, fmt |-> "none"]

\* Files a user may upload: a canonical WAV, a WAV of another shape and a
\* compressed file.
Uploads ==
    {[ext |-> "wav", rate |-> SampleRate, channels |-> 1, fmt |-> "int16"],
     [ext |-> "wav", rate |-> 44100, channels |-> 2, fmt |-> "int16"],
     [ext |-> "mp3", rate |-> 44100, channels |-> 2, fmt |-> "compressed"]}

\* line 44: st.slider(..., 1, 30, 5): the default and the highest duration
Durations == {5, 30}

\* What the backend may return as ["text"]
Texts == {"", " ", "hello"}

\* What a failing call may raise (the message of the exception)
Causes == {"e1", "e2"}

\* Python's None, for transcription / e / message
None == "<None>"

(***************************************************************************)
(* Pure helpers                                                            *)
(***************************************************************************)
\* faulty variant of KwargsFor: the selected value is passed even when "auto"
KwargsAlways(l) == {<<"language", l>>}

\* line 66, 102: kwargs = {} if language == "auto" else {"language": language}
KwargsFor(l) == IF l = "auto" THEN {} ELSE {<<"language", l>>}

\* line 138: transcriber(tmp_file.name) passes no generate_kwargs
AltKwargs(k) == {}

\* the language hint a call made with generate_kwargs k carries
HintOf(k) == IF \E p \in k : p[1] = "language"
             THEN (CHOOSE p \in k : p[1] = "language")[2]
             ELSE None

\* line 51: sd.rec(..., samplerate=16000, channels=1, dtype='float32')
Rec == [ext |-> "ndarray", rate |-> SampleRate, channels |-> 1, fmt |-> "float32"]

\* line 56, 128: np.int16(a * 32767) / (a * 32767).astype(np.int16)
ToInt16(a) == [a EXCEPT !.fmt = "int16"]

\* line 56, 128: the factor the float samples are multiplied by
Int16Scale == 32767

\* line 56, 128: the range of np.int16
Int16Min == -32768
Int16Max == 32767

RECURSIVE Pow2(_)
Pow2(n) == IF n = 0 THEN 1 ELSE 2 * Pow2(n - 1)

\* position of the leading bit of n >= 1
RECURSIVE Log2(_)
Log2(n) == IF n < 2 THEN 0 ELSE 1 + Log2(n \div 2)

\* line 51, 123: the arrays are float32: bits of the significand
Float32Bits == 24

\* n / d rounded to the nearest integer, ties to the even one (n >= 0, d > 0)
RoundHalfEven(n, d) ==
    LET q == n \div d
        r == n % d
    IN  IF 2 * r < d THEN q
        ELSE IF 2 * r > d THEN q + 1
        ELSE IF q % 2 = 0 THEN q ELSE q + 1

\* line 56, 128: the float32 product (n / den) * s cast to an integer, for
\* 0 <= n <= den, den a power of two.  The exact product is
\* whole + part / den (computed in two halves of s, so that no intermediate
\* value leaves 32 bits); numpy rounds it to Float32Bits significant bits,
\* ties to even, and the cast drops the fraction that is left.
Float32Scaled(n, den, s) ==
    LET a     == n * (s \div 256)
        b     == (a % den) * 256 + n * (s % 256)
        whole == (a \div den) * 256 + b \div den
        part  == b % den
        kept  == Pow2(Float32Bits - 1 - Log2(whole))
    IN  IF whole = 0 \/ den <= kept THEN whole
        ELSE IF RoundHalfEven(part, den \div kept) * (den \div kept) = den
             THEN whole + 1
             ELSE whole

\* multiplication, rounding and the cast are symmetric about zero
ScaleBy(num, den, s) ==
    IF num >= 0 THEN Float32Scaled(num, den, s) ELSE -Float32Scaled(-num, den, s)

\* faulty variant of ScaleSample: full scale taken as 32768
ScaleSampleBy32768(num, den) == ScaleBy(num, den, 32768)

\* line 56, 128: np.int16(sample * 32767) for the float32 sample num / den,
\* before the value is reduced to 16 bits
ScaleSample(num, den) == ScaleBy(num, den, Int16Scale)

\* line 56, 128: np.int16(v) / .astype(np.int16) keeps the low 16 bits
CastInt16(v) == ((v - Int16Min) % 65536) + Int16Min

\* line 60, 128: scipy.io.wavfile.write(name, rate, data)
WavWrite(rate, a) == [ext |-> "wav", rate |-> rate, channels |-> a.channels, fmt |-> a.fmt]

\* line 90-92: the uploaded bytes are written as they are, suffix = extension
SaveUpload(f) == [ext |-> f.ext, rate |-> f.rate, channels |-> f.channels, fmt |-> f.fmt]

\* line 123: librosa.load(path, sr=16000) resamples to sr and mixes to mono.
\* Line 128 writes the WAV header with rate 16000 whatever the array holds.
LibrosaLoad(f) == [ext |-> "ndarray", rate |-> SampleRate, channels |-> 1, fmt |-> "float32"]

\* faulty variant of Truthy: "if transcription is not None"
TruthyAny(t) == t # None

\* line 146: if transcription:
Truthy(t) == t # None /\ t # ""

\* line 120, 143-144: where control goes when Direct has raised
AfterDirectFailed == IF LIBROSA_AVAILABLE THEN "librosa_load" ELSE "handler"

\* faulty variant of AfterAltFailed: Approach 3 is tried a second time
AfterAltFailedRetry == IF Len(attempts) < 4 THEN "alt" ELSE "handler"

\* line 140-142: Approach 3 has raised; raise alt_error reaches the outer handler
AfterAltFailed == "handler"

\* line 115, 130, 139: a successful call leaves the try statement
AfterSuccess(s) == "result"

\* line 11, 18: the modules the script probes for
Probed == {"sounddevice", "librosa"}

\* line 10-14, 17-21: import m succeeds or raises ImportError / OSError
ImportSucceeds(m) == m \in installed

\* line 17-21: the librosa probe catches ImportError alone (line 13 catches
\* OSError too), so an OSError raised by import librosa leaves the script
ProbeEscapes == "librosa" \in oserror

\* line 59-60, 90-91, 127-128: a temporary file that was created (delete=False)
\* and whose write did not complete
Unwritten(x) == [ext |-> x, rate |-> -1, channels |-> -1, fmt |-> "unknown"]

\* line 148: str(e) of the exception Streamlit raises for a second widget
\* with the parameters of one the run has rendered
DuplicateWidgetID == "DuplicateWidgetID"

\* line 69, 148: both calls are st.text_area("Transcription:", value=...,
\* height=200) without a key, so the two widgets are the same one exactly
\* when their texts are equal; rec_txt is None when line 69 was not executed
DuplicateTextArea(rec_txt, txt) == rec_txt = txt

\* one entry of the history of attempts
Attempt(s, called, input, k, ok, value) ==
    [strategy |-> s, called |-> called, input |-> input, hint |-> HintOf(k),
     instance |-> transcriber, ok |-> ok, value |-> value]

flags == <<SOUNDDEVICE_AVAILABLE, LIBROSA_AVAILABLE>>
environment == <<installed, oserror, probes>>
conversion == <<site, sample_num, sample_den, sample_raw, sample_out>>
widgets == <<language, uploaded_file, duration, record_btn, transcribe_btn>>
request == <<widgets, merged>>
backend == <<constructions, transcriber>>
rec_display == <<rec_outcome, rec_shown, rec_message>>
display == <<outcome, shown, message, uncaught>>

(***************************************************************************)
(* Initial state: the process has started, the first script run begins     *)
(***************************************************************************)
\* the program's variables before the first script run; the two flags are
\* not bound yet (FALSE stands for the unbound name)
InitProgram ==
    /\ installed \in SUBSET Probed
    /\ oserror \in SUBSET (Probed \ installed)
    /\ probes = 0
    /\ duration = 5
    /\ page = {}
    /\ rendered = {}
    /\ merged = 0
    /\ SOUNDDEVICE_AVAILABLE = FALSE
    /\ LIBROSA_AVAILABLE = FALSE
    /\ language = "auto"
    /\ uploaded_file = NoFile
    /\ record_btn = FALSE
    /\ transcribe_btn = FALSE
    /\ pc = "probe"
    /\ constructions = 0
    /\ transcriber = 0
    /\ audio = NoFile
    /\ tmp_file = NoFile
    /\ audio_data = NoFile
    /\ kwargs = {}
    /\ transcription = None
    /\ attempts = <<>>
    /\ warnings = <<>>
    /\ caught = None
    /\ e = None
    /\ rec_outcome = "none"
    /\ rec_shown = None
    /\ rec_message = None
    /\ outcome = "none"
    /\ shown = None
    /\ message = None
    /\ uncaught = FALSE
    /\ tmp_live = 0

\* no conversion has been looked at
NoConversion ==
    /\ site = "none"
    /\ sample_num = 0
    /\ sample_den = 1
    /\ sample_raw = 0
    /\ sample_out = 0

Init == InitProgram /\ NoConversion

(***************************************************************************)
(* User interactions: each one asks for a new run of the script.  A widget *)
(* can be used while a run is in progress: the run is then abandoned at    *)
(* its next st.* call (Streamlit raises a BaseException there, which the   *)
(* script's except Exception clauses do not catch) and a new run starts.   *)
(* A run in progress has passed line 9-21 before its first st.* call.      *)
(* An interaction made while the requested run has not begun (pc is        *)
(* "probe") is merged into that request: no further run is started and the *)
(* button clicks the request already carries are kept, so that one run can *)
(* see both buttons pressed.                                               *)
(***************************************************************************)
\* what every rerun starts from: the script's locals are fresh; the elements
\* on the page stay until the new run replaces them or ends
Rerun ==
    /\ pc # "probe"
    /\ probes < MaxRuns
    /\ pc' = "probe"
    /\ audio' = NoFile
    /\ tmp_file' = NoFile
    /\ audio_data' = NoFile
    /\ kwargs' = {}
    /\ transcription' = None
    /\ attempts' = <<>>
    /\ warnings' = <<>>
    /\ caught' = None
    /\ e' = None
    /\ rec_outcome' = "none"
    /\ rec_shown' = None
    /\ rec_message' = None
    /\ outcome' = "none"
    /\ shown' = None
    /\ message' = None
    /\ uncaught' = FALSE
    /\ rendered' = {}
    /\ UNCHANGED <<environment, conversion, flags, page, merged, backend, tmp_live>>

\* the run asked for has not begun: the request stays as it is
Pending ==
    /\ pc = "probe"
    /\ merged < MaxMerged
    /\ merged' = merged + 1
    /\ UNCHANGED <<environment, conversion, flags, page, rendered, pc, backend, audio,
                   tmp_file, audio_data, kwargs, transcription, attempts, warnings,
                   caught, e, rec_display, display, tmp_live>>

\* line 45, 98: what the two st.button calls of the next run return when the
\* interaction clicks rec / tr; a button is TRUE only in the run its click
\* asked for
Interaction(rec, tr) ==
    \/ /\ Rerun
       /\ record_btn' = rec
       /\ transcribe_btn' = tr
    \/ /\ Pending
       /\ record_btn' = (record_btn \/ rec)
       /\ transcribe_btn' = (transcribe_btn \/ tr)

\* line 39
SelectLanguage ==
    /\ "language" \in page
    /\ \E l \in Languages \ {language} : language' = l
    /\ Interaction(FALSE, FALSE)
    /\ UNCHANGED <<uploaded_file, duration>>

\* line 44
MoveSlider ==
    /\ "slider" \in page
    /\ \E d \in Durations \ {duration} : duration' = d
    /\ Interaction(FALSE, FALSE)
    /\ UNCHANGED <<language, uploaded_file>>

\* line 69, 148: the text area is an editable widget; an edit reruns the
\* script with every other widget as it was
EditTextArea ==
    /\ "text_area" \in page
    /\ Interaction(FALSE, FALSE)
    /\ UNCHANGED <<language, uploaded_file, duration>>

\* line 81-84
UploadFile ==
    /\ "uploader" \in page
    /\ \E f \in Uploads \ {uploaded_file} : uploaded_file' = f
    /\ Interaction(FALSE, FALSE)
    /\ UNCHANGED <<language, duration>>

\* line 81-84: the user removes the file from the uploader
ClearFile ==
    /\ "uploader" \in page
    /\ uploaded_file # NoFile
    /\ uploaded_file' = NoFile
    /\ Interaction(FALSE, FALSE)
    /\ UNCHANGED <<language, duration>>

\* line 42-45: the record button is rendered only when sounddevice was imported
ClickRecord ==
    /\ "record" \in page
    /\ Interaction(TRUE, FALSE)
    /\ UNCHANGED <<language, uploaded_file, duration>>

\* line 86-98: the transcribe button is rendered only by a run that reaches
\* line 98 with a file in the uploader
ClickTranscribe ==
    /\ "transcribe" \in page
    /\ Interaction(FALSE, TRUE)
    /\ UNCHANGED <<language, uploaded_file, duration>>

(***************************************************************************)
(* The script run.  Each step begins at an st.* call, where Streamlit can   *)
(* stop the run for a new one, and ends before the next st.* call at which *)
(* the state of the run differs.                                           *)
(***************************************************************************)
\* an st.* call that places a widget on the page
Render(els) ==
    /\ page' = page \cup els
    /\ rendered' = rendered \cup els

\* the script is left, by its last line or by an uncaught exception: the
\* elements of earlier runs that this run did not render leave the page
RunEnds ==
    /\ pc' = "idle"
    /\ page' = rendered

\* line 9-21: the two try/import statements, executed by every run of the
\* script; each binds its flag to whether the import succeeded.  The next
\* statement is the st.markdown of line 24
ProbeImports ==
    /\ pc = "probe"
    /\ probes' = probes + 1
    /\ merged' = 0
    /\ SOUNDDEVICE_AVAILABLE' = ImportSucceeds("sounddevice")
    /\ IF ProbeEscapes
       THEN /\ uncaught' = TRUE
            /\ RunEnds
            /\ UNCHANGED LIBROSA_AVAILABLE
       ELSE /\ LIBROSA_AVAILABLE' = ImportSucceeds("librosa")
            /\ pc' = "construct"
            /\ UNCHANGED <<uncaught, page>>
    /\ UNCHANGED <<conversion, backend, rec_display, language, uploaded_file,
                   duration, record_btn, transcribe_btn, audio, tmp_file,
                   audio_data, kwargs, transcription, attempts, warnings, caught,
                   e, outcome, shown, message, tmp_live, installed, oserror,
                   rendered>>

\* line 24-33: the style block and transcriber = pipeline(...), executed by
\* every run of the script and outside every try statement
ConstructBackend ==
    /\ pc = "construct"
    /\ \/ /\ pc' = "language"
          /\ constructions' = constructions + 1
          /\ transcriber' = constructions + 1
          /\ UNCHANGED <<uncaught, page>>
       \/ \* pipeline(...) raises
          /\ uncaught' = TRUE
          /\ RunEnds
          /\ UNCHANGED backend
    /\ UNCHANGED <<conversion, environment, flags, request, rec_display, audio,
                   tmp_file, audio_data, kwargs, transcription, attempts,
                   warnings, caught, e, outcome, shown, message, tmp_live,
                   rendered>>

\* line 35-42: the title and the language selectbox
RenderLanguage ==
    /\ pc = "language"
    /\ Render({"language"})
    /\ pc' = IF SOUNDDEVICE_AVAILABLE THEN "slider" ELSE "uploader"
    /\ UNCHANGED <<conversion, environment, flags, request, backend, rec_display,
                   display, audio, tmp_file, audio_data, kwargs, transcription,
                   attempts, warnings, caught, e, tmp_live>>

\* line 43-44: the duration slider
RenderSlider ==
    /\ pc = "slider"
    /\ Render({"slider"})
    /\ pc' = "record_gate"
    /\ UNCHANGED <<conversion, environment, flags, request, backend, rec_display,
                   display, audio, tmp_file, audio_data, kwargs, transcription,
                   attempts, warnings, caught, e, tmp_live>>

\* line 45-47: the record button and its value in this run
RecordGate ==
    /\ pc = "record_gate"
    /\ Render({"record"})
    /\ pc' = IF record_btn THEN "rec_capture" ELSE "uploader"
    /\ UNCHANGED <<conversion, environment, flags, request, backend, rec_display,
                   display, audio, tmp_file, audio_data, kwargs, transcription,
                   attempts, warnings, caught, e, tmp_live>>

\* line 48-52: sd.rec / sd.wait return the array or raise
RecordCapture ==
    /\ pc = "rec_capture"
    /\ \/ /\ audio' = Rec
          /\ pc' = "rec_save"
          /\ UNCHANGED e
       \/ \* sd.rec (line 51) raises
          \E c \in Causes :
            /\ e' = c
            /\ pc' = "rec_error"
            /\ UNCHANGED audio
       \/ \* sd.wait (line 52) raises: audio was bound by line 51
          \E c \in Causes :
            /\ e' = c
            /\ pc' = "rec_error"
            /\ audio' = Rec
    /\ UNCHANGED <<conversion, environment, flags, request, backend, rec_display,
                   display, tmp_file, audio_data, kwargs, transcription,
                   attempts, warnings, caught, tmp_live, page, rendered>>

\* line 53-60: convert, create the temporary WAV (delete=False) and write it
RecordSave ==
    /\ pc = "rec_save"
    /\ \/ /\ tmp_file' = WavWrite(SampleRate, ToInt16(audio))
          /\ tmp_live' = tmp_live + 1
          /\ pc' = "rec_transcribe"
          /\ UNCHANGED e
       \/ \* line 56 or NamedTemporaryFile (line 59) raises: no file was created
          \E c \in Causes :
            /\ e' = c
            /\ pc' = "rec_error"
            /\ UNCHANGED <<tmp_file, tmp_live>>
       \/ \* write (line 60) raises: the file of line 59 stays
          \E c \in Causes :
            /\ e' = c
            /\ pc' = "rec_error"
            /\ tmp_file' = Unwritten("wav")
            /\ tmp_live' = tmp_live + 1
    /\ UNCHANGED <<conversion, environment, flags, request, backend, rec_display,
                   display, audio, audio_data, kwargs, transcription, attempts,
                   warnings, caught, page, rendered>>

\* line 62-67: the player, then the one backend call of the record path
RecordTranscribe ==
    /\ pc = "rec_transcribe"
    /\ \/ \* st.audio (line 62) raises
          \E c \in Causes :
            /\ e' = c
            /\ pc' = "rec_error"
            /\ UNCHANGED <<kwargs, attempts, transcription>>
       \/ \E t \in Texts :
            /\ kwargs' = KwargsFor(language)
            /\ attempts' = Append(attempts, Attempt("Record", TRUE, tmp_file, kwargs', TRUE, t))
            /\ transcription' = t
            /\ pc' = "rec_show"
            /\ UNCHANGED e
       \/ \E c \in Causes :
            /\ kwargs' = KwargsFor(language)
            /\ attempts' = Append(attempts, Attempt("Record", TRUE, tmp_file, kwargs', FALSE, c))
            /\ e' = c
            /\ pc' = "rec_error"
            /\ UNCHANGED transcription
    /\ UNCHANGED <<conversion, environment, flags, request, backend, rec_display,
                   display, audio, tmp_file, audio_data, warnings, caught,
                   tmp_live, page, rendered>>

\* line 68-69: the text is displayed whatever it is
RecordShow ==
    /\ pc = "rec_show"
    /\ rec_outcome' = "transcript"
    /\ rec_shown' = transcription
    /\ Render({"text_area"})
    /\ pc' = "uploader"
    /\ UNCHANGED <<conversion, environment, flags, request, backend, display,
                   audio, tmp_file, audio_data, kwargs, transcription, attempts,
                   warnings, caught, e, rec_message, tmp_live>>

\* line 70-71: the record path's handler shows str(e)
RecordFailed ==
    /\ pc = "rec_error"
    /\ rec_outcome' = "record_failed"
    /\ rec_message' = e
    /\ pc' = "rec_tip"
    /\ UNCHANGED <<conversion, environment, flags, request, backend, display,
                   audio, tmp_file, audio_data, kwargs, transcription, attempts,
                   warnings, caught, e, rec_shown, tmp_live, page, rendered>>

\* line 72: the tip; the clause of line 70 ends and the name e is unbound
RecordFailedTip ==
    /\ pc = "rec_tip"
    /\ e' = None
    /\ pc' = "uploader"
    /\ UNCHANGED <<conversion, environment, flags, request, backend, rec_display,
                   display, audio, tmp_file, audio_data, kwargs, transcription,
                   attempts, warnings, caught, tmp_live, page, rendered>>

\* line 74-86: the uploader is rendered whatever the flags are
UploadGate ==
    /\ pc = "uploader"
    /\ Render({"uploader"})
    /\ pc' = IF uploaded_file # NoFile THEN "upload_save" ELSE "footer"
    /\ UNCHANGED <<conversion, environment, flags, request, backend, rec_display,
                   display, audio, tmp_file, audio_data, kwargs, transcription,
                   attempts, warnings, caught, e, tmp_live>>

\* line 87-92: the uploaded bytes are saved (delete=False), outside every try
UploadSave ==
    /\ pc = "upload_save"
    /\ \/ /\ tmp_file' = SaveUpload(uploaded_file)
          /\ tmp_live' = tmp_live + 1
          /\ pc' = "transcribe_gate"
          /\ UNCHANGED <<uncaught, page>>
       \/ \* NamedTemporaryFile (line 90) raises: no file was created
          /\ uncaught' = TRUE
          /\ RunEnds
          /\ UNCHANGED <<tmp_file, tmp_live>>
       \/ \* write / close (line 91-92) raises: the file of line 90 stays
          /\ uncaught' = TRUE
          /\ RunEnds
          /\ tmp_file' = Unwritten(uploaded_file.ext)
          /\ tmp_live' = tmp_live + 1
    /\ UNCHANGED <<conversion, environment, flags, request, backend, rec_display,
                   audio, audio_data, kwargs, transcription, attempts, warnings,
                   caught, e, outcome, shown, message, rendered>>

\* line 95-98: the player (outside every try), then the transcribe button and
\* its value in this run
TranscribeGate ==
    /\ pc = "transcribe_gate"
    /\ \/ /\ Render({"transcribe"})
          /\ pc' = IF transcribe_btn THEN "chain_start" ELSE "footer"
          /\ UNCHANGED uncaught
       \/ \* st.audio (line 95) raises
          /\ uncaught' = TRUE
          /\ RunEnds
          /\ UNCHANGED rendered
    /\ UNCHANGED <<conversion, environment, flags, request, backend, rec_display,
                   audio, tmp_file, audio_data, kwargs, transcription, attempts,
                   warnings, caught, e, outcome, shown, message, tmp_live>>

\* line 99-102
ChainStart ==
    /\ pc = "chain_start"
    /\ kwargs' = KwargsFor(language)
    /\ pc' = "chain_info"
    /\ UNCHANGED <<conversion, environment, flags, request, backend, rec_display,
                   display, audio, tmp_file, audio_data, transcription, attempts,
                   warnings, caught, e, tmp_live, page, rendered>>

\* line 105-109
ChainInfo ==
    /\ pc = "chain_info"
    /\ transcription' = None
    /\ pc' = "direct"
    /\ UNCHANGED <<conversion, environment, flags, request, backend, rec_display,
                   display, audio, tmp_file, audio_data, kwargs, attempts,
                   warnings, caught, e, tmp_live, page, rendered>>

\* line 113-114, 116: Approach 1, the saved upload as it is
Direct ==
    /\ pc = "direct"
    /\ \/ \E t \in Texts :
            /\ attempts' = Append(attempts, Attempt("Direct", TRUE, tmp_file, kwargs, TRUE, t))
            /\ transcription' = t
            /\ pc' = "direct_ok"
            /\ UNCHANGED caught
       \/ \E c \in Causes :
            /\ attempts' = Append(attempts, Attempt("Direct", TRUE, tmp_file, kwargs, FALSE, c))
            /\ caught' = c
            /\ pc' = "direct_failed"
            /\ UNCHANGED transcription
    /\ UNCHANGED <<conversion, environment, flags, request, backend, rec_display,
                   display, audio, tmp_file, audio_data, kwargs, warnings, e,
                   tmp_live, page, rendered>>

\* line 115, 146
DirectSucceeded ==
    /\ pc = "direct_ok"
    /\ pc' = AfterSuccess("Direct")
    /\ UNCHANGED <<conversion, environment, flags, request, backend, rec_display,
                   display, audio, tmp_file, audio_data, kwargs, transcription,
                   attempts, warnings, caught, e, tmp_live, page, rendered>>

\* line 117-120, 143-144: the warning, then Approach 2 or raise direct_error
DirectFailed ==
    /\ pc = "direct_failed"
    /\ warnings' = Append(warnings, caught)
    /\ pc' = AfterDirectFailed
    /\ e' = IF pc' = "handler" THEN caught ELSE e
    /\ UNCHANGED <<conversion, environment, flags, request, backend, rec_display,
                   display, audio, tmp_file, audio_data, kwargs, transcription,
                   attempts, caught, tmp_live, page, rendered>>

\* line 122-123, 131: Approach 2, the decode; raising makes the approach fail
\* before any backend call
LibrosaDecode ==
    /\ pc = "librosa_load"
    /\ \/ /\ audio_data' = LibrosaLoad(tmp_file)
          /\ pc' = "librosa_call"
          /\ UNCHANGED <<attempts, caught>>
       \/ \E c \in Causes :
            /\ attempts' = Append(attempts, Attempt("Redecoded", FALSE, NoFile, kwargs, FALSE, c))
            /\ caught' = c
            /\ pc' = "librosa_failed"
            /\ UNCHANGED audio_data
    /\ UNCHANGED <<conversion, environment, flags, request, backend, rec_display,
                   display, audio, tmp_file, kwargs, transcription, warnings, e,
                   tmp_live, page, rendered>>

\* line 124-129, 131: Approach 2, the WAV (delete=False) and the backend call
LibrosaCall ==
    /\ pc = "librosa_call"
    /\ LET wav_file == WavWrite(SampleRate, ToInt16(audio_data)) IN
       \/ \E t \in Texts :
            /\ attempts' = Append(attempts, Attempt("Redecoded", TRUE, wav_file, kwargs, TRUE, t))
            /\ transcription' = t
            /\ tmp_live' = tmp_live + 1
            /\ pc' = "librosa_ok"
            /\ UNCHANGED caught
       \/ \E c \in Causes :
            /\ attempts' = Append(attempts, Attempt("Redecoded", TRUE, wav_file, kwargs, FALSE, c))
            /\ caught' = c
            /\ tmp_live' = tmp_live + 1
            /\ pc' = "librosa_failed"
            /\ UNCHANGED transcription
       \/ \* NamedTemporaryFile (line 127) raises: no file, no backend call
          \E c \in Causes :
            /\ attempts' = Append(attempts, Attempt("Redecoded", FALSE, NoFile, kwargs, FALSE, c))
            /\ caught' = c
            /\ pc' = "librosa_failed"
            /\ UNCHANGED <<transcription, tmp_live>>
       \/ \* write (line 128) raises: the file of line 127 stays, no backend call
          \E c \in Causes :
            /\ attempts' = Append(attempts, Attempt("Redecoded", FALSE, NoFile, kwargs, FALSE, c))
            /\ caught' = c
            /\ tmp_live' = tmp_live + 1
            /\ pc' = "librosa_failed"
            /\ UNCHANGED transcription
    /\ UNCHANGED <<conversion, environment, flags, request, backend, rec_display,
                   display, audio, tmp_file, audio_data, kwargs, warnings, e,
                   page, rendered>>

\* line 130, 146
LibrosaSucceeded ==
    /\ pc = "librosa_ok"
    /\ pc' = AfterSuccess("Redecoded")
    /\ UNCHANGED <<conversion, environment, flags, request, backend, rec_display,
                   display, audio, tmp_file, audio_data, kwargs, transcription,
                   attempts, warnings, caught, e, tmp_live, page, rendered>>

\* line 132: the warning; Approach 3 follows in the same except clause
LibrosaFailed ==
    /\ pc = "librosa_failed"
    /\ warnings' = Append(warnings, caught)
    /\ pc' = "alt"
    /\ UNCHANGED <<conversion, environment, flags, request, backend, rec_display,
                   display, audio, tmp_file, audio_data, kwargs, transcription,
                   attempts, caught, e, tmp_live, page, rendered>>

\* line 136-138, 140: Approach 3, the saved upload and no generate_kwargs
Alt ==
    /\ pc = "alt"
    /\ \/ \E t \in Texts :
            /\ attempts' = Append(attempts,
                                  Attempt("Unhinted", TRUE, tmp_file, AltKwargs(kwargs), TRUE, t))
            /\ transcription' = t
            /\ pc' = "alt_ok"
            /\ UNCHANGED caught
       \/ \E c \in Causes :
            /\ attempts' = Append(attempts,
                                  Attempt("Unhinted", TRUE, tmp_file, AltKwargs(kwargs), FALSE, c))
            /\ caught' = c
            /\ pc' = "alt_failed"
            /\ UNCHANGED transcription
    /\ UNCHANGED <<conversion, environment, flags, request, backend, rec_display,
                   display, audio, tmp_file, audio_data, kwargs, warnings, e,
                   tmp_live, page, rendered>>

\* line 139, 146
AltSucceeded ==
    /\ pc = "alt_ok"
    /\ pc' = AfterSuccess("Unhinted")
    /\ UNCHANGED <<conversion, environment, flags, request, backend, rec_display,
                   display, audio, tmp_file, audio_data, kwargs, transcription,
                   attempts, warnings, caught, e, tmp_live, page, rendered>>

\* line 141-142: "All approaches failed", then raise alt_error
AltFailed ==
    /\ pc = "alt_failed"
    /\ e' = caught
    /\ pc' = AfterAltFailed
    /\ UNCHANGED <<conversion, environment, flags, request, backend, rec_display,
                   display, audio, tmp_file, audio_data, kwargs, transcription,
                   attempts, warnings, caught, tmp_live, page, rendered>>

\* line 146-150: the result policy.  Line 148 is the same keyless call as line
\* 69: when the run has rendered the recording's text area with the same text,
\* Streamlit raises DuplicateWidgetID, inside the try of line 101
Result ==
    /\ pc = "result"
    /\ IF Truthy(transcription)
       THEN IF DuplicateTextArea(rec_shown, transcription)
            THEN /\ e' = DuplicateWidgetID
                 /\ pc' = "handler"
                 /\ UNCHANGED <<outcome, shown, page, rendered>>
            ELSE /\ outcome' = "transcript"
                 /\ shown' = transcription
                 /\ Render({"text_area"})
                 /\ pc' = "footer"
                 /\ UNCHANGED e
       ELSE /\ outcome' = "no_result"
            /\ pc' = "footer"
            /\ UNCHANGED <<shown, page, rendered, e>>
    /\ UNCHANGED <<conversion, environment, flags, request, backend, rec_display,
                   audio, tmp_file, audio_data, kwargs, transcription, attempts,
                   warnings, caught, message, uncaught, tmp_live>>

\* line 152-153: the outer handler shows str(e) of the one exception it caught
Handler ==
    /\ pc = "handler"
    /\ outcome' = "failed"
    /\ message' = e
    /\ pc' = "tips"
    /\ UNCHANGED <<conversion, environment, flags, request, backend, rec_display,
                   audio, tmp_file, audio_data, kwargs, transcription, attempts,
                   warnings, caught, e, shown, uncaught, tmp_live, page, rendered>>

\* line 154-160: the error type and the tips; the clause of line 152 ends and
\* the name e is unbound
HandlerTips ==
    /\ pc = "tips"
    /\ e' = None
    /\ pc' = "footer"
    /\ UNCHANGED <<conversion, environment, flags, request, backend, rec_display,
                   display, audio, tmp_file, audio_data, kwargs, transcription,
                   attempts, warnings, caught, tmp_live, page, rendered>>

\* line 162-163: the footer; the run is over and what it did not render
\* leaves the page
Footer ==
    /\ pc = "footer"
    /\ RunEnds
    /\ UNCHANGED <<conversion, environment, flags, request, backend, rec_display,
                   display, audio, tmp_file, audio_data, kwargs, transcription,
                   attempts, warnings, caught, e, tmp_live, rendered>>

Next ==
    \/ SelectLanguage
    \/ MoveSlider
    \/ EditTextArea
    \/ UploadFile
    \/ ClearFile
    \/ ClickRecord
    \/ ClickTranscribe
    \/ ProbeImports
    \/ ConstructBackend
    \/ RenderLanguage
    \/ RenderSlider
    \/ RecordGate
    \/ RecordCapture
    \/ RecordSave
    \/ RecordTranscribe
    \/ RecordShow
    \/ RecordFailed
    \/ RecordFailedTip
    \/ UploadGate
    \/ UploadSave
    \/ TranscribeGate
    \/ ChainStart
    \/ ChainInfo
    \/ Direct
    \/ DirectSucceeded
    \/ DirectFailed
    \/ LibrosaDecode
    \/ LibrosaCall
    \/ LibrosaSucceeded
    \/ LibrosaFailed
    \/ Alt
    \/ AltSucceeded
    \/ AltFailed
    \/ Result
    \/ Handler
    \/ HandlerTips
    \/ Footer

Spec == Init /\ [][Next]_vars

(***************************************************************************)
(* The float-to-int16 conversion, applied to samples of [-1.0, 1.0] at     *)
(* its two sites                                                           *)
(***************************************************************************)
program == <<flags, request, page, rendered, pc, backend, audio, tmp_file,
             audio_data, kwargs, transcription, attempts, warnings, caught, e,
             rec_display, display, tmp_live, environment>>

Convert(where, num, den) ==
    /\ site' = where
    /\ sample_num' = num
    /\ sample_den' = den
    /\ sample_raw' = ScaleSample(num, den)
    /\ sample_out' = CastInt16(ScaleSample(num, den))
    /\ UNCHANGED program

\* line 56: audio_int16 = np.int16(audio * 32767)
ConvertRecorded ==
    /\ site = "none"
    /\ \E k \in 0..MaxExp : \E n \in (-Pow2(k))..Pow2(k) :
          /\ k = 0 \/ n % 2 = 1
          /\ Convert("record", n, Pow2(k))

\* line 128: (audio_data * 32767).astype(np.int16)
ConvertRedecoded ==
    /\ site = "none"
    /\ \E k \in 0..MaxExp : \E n \in (-Pow2(k))..Pow2(k) :
          /\ k = 0 \/ n % 2 = 1
          /\ Convert("redecoded", n, Pow2(k))

NextInt16 ==
    \/ ConvertRecorded
    \/ ConvertRedecoded

\* one sample is converted at one of the two sites, in an environment where
\* both modules are installed
InitInt16 == Init /\ installed = Probed

SpecInt16 == InitInt16 /\ [][NextInt16]_vars

(***************************************************************************)
(* The script is run synchronously to its end: once a run has started,     *)
(* its next statement is executed (every backend and decode call returns   *)
(* or raises).  The user is under no obligation to interact.               *)
(***************************************************************************)
ScriptStep ==
    \/ ProbeImports
    \/ ConstructBackend
    \/ RenderLanguage
    \/ RenderSlider
    \/ RecordGate
    \/ RecordCapture
    \/ RecordSave
    \/ RecordTranscribe
    \/ RecordShow
    \/ RecordFailed
    \/ RecordFailedTip
    \/ UploadGate
    \/ UploadSave
    \/ TranscribeGate
    \/ ChainStart
    \/ ChainInfo
    \/ Direct
    \/ DirectSucceeded
    \/ DirectFailed
    \/ LibrosaDecode
    \/ LibrosaCall
    \/ LibrosaSucceeded
    \/ LibrosaFailed
    \/ Alt
    \/ AltSucceeded
    \/ AltFailed
    \/ Result
    \/ Handler
    \/ HandlerTips
    \/ Footer

FairSpec == Spec /\ WF_vars(ScriptStep)

(***************************************************************************)
(* Vocabulary of the properties                                            *)
(***************************************************************************)
\* the run is over
Done == pc = "idle"

\* line 86, 98: the run is an upload transcription request: the transcribe
\* button was clicked and the uploader holds a file (a click on the button a
\* previous run left on the page, after the file was removed, requests nothing)
UploadRequest == transcribe_btn /\ uploaded_file # NoFile

\* the run is a live-capture request
RecordRequest == record_btn

Idx == 1..Len(attempts)

\* line 111-142: the attempts of the run's upload request (a run in which both
\* buttons are pressed has made the recording's call before them)
IsChainAttempt(a) == a.strategy # "Record"
Chain == SelectSeq(attempts, IsChainAttempt)
ChainIdx == 1..Len(Chain)

\* position of a strategy in the order Direct, Re-decoded, Unhinted
Rank(s) == CASE s = "Direct" -> 1 [] s = "Redecoded" -> 2 [] s = "Unhinted" -> 3 [] OTHER -> 0

\* mono, 16 kHz, int16 PCM in a WAV container
Canonical(f) ==
    f.ext = "wav" /\ f.rate = SampleRate /\ f.channels = 1 /\ f.fmt = "int16"

Attempted(s) == \E i \in Idx : attempts[i].strategy = s

\* line 115, 130, 139, 146-150, 162: the chain has been left by a successful
\* call and control is at the result policy or behind it
ChainSucceeded == pc \in {"direct_ok", "librosa_ok", "alt_ok", "result", "footer", "idle"}

\* the causes the terminal failure report carries: str(e) of lines 153
Reported == IF message = None THEN {} ELSE {message}

(***************************************************************************)
(* C1: in an upload request the strategies are attempted in the order      *)
(* Direct, Re-decoded, Unhinted, each at most once; a strategy is          *)
(* attempted only after all earlier attempts failed; nothing is attempted  *)
(* after a success; the request's result is the text of the strategy that  *)
(* succeeded, and the request then does not end in the failure outcome.    *)
(***************************************************************************)
C1_ChainOrder ==
    UploadRequest =>
        /\ Len(Chain) <= 3
        /\ \A i \in ChainIdx : Rank(Chain[i].strategy) >= 1
        /\ Len(Chain) >= 1 => Chain[1].strategy = "Direct"
        /\ \A i, j \in ChainIdx :
              i < j => /\ Rank(Chain[i].strategy) < Rank(Chain[j].strategy)
                       /\ ~Chain[i].ok
        /\ \A i \in ChainIdx :
              Chain[i].ok =>
                  /\ ChainSucceeded
                  /\ transcription = Chain[i].value
                  /\ Done => /\ outcome \in {"transcript", "no_result"}
                             /\ outcome = "transcript" => shown = Chain[i].value

(***************************************************************************)
(* C2: in an upload request, a terminal failure is reported only after     *)
(* the Unhinted strategy has been attempted (whether Re-decoded was        *)
(* unavailable or failed).                                                 *)
(***************************************************************************)
C2_UnhintedBeforeFailure ==
    (UploadRequest /\ outcome = "failed") => Attempted("Unhinted")

(***************************************************************************)
(* C3: when all three strategies of an upload request failed, the          *)
(* terminal failure report contains the cause of each of the three         *)
(* failures.                                                               *)
(***************************************************************************)
C3_AllCausesReported ==
    (UploadRequest /\ outcome = "failed" /\ Len(Chain) = 3) =>
        \A i \in ChainIdx : Chain[i].value \in Reported

(***************************************************************************)
(* C4: in an upload request, a backend call that returns the empty string  *)
(* is the last attempt of the request, and the request ends in the "no     *)
(* transcription result" outcome, with no failure report and no transcript.*)
(***************************************************************************)
C4_EmptyIsNoSpeech ==
    UploadRequest =>
        \A i \in ChainIdx :
            (Chain[i].called /\ Chain[i].ok /\ Chain[i].value = "") =>
                /\ i = Len(Chain)
                /\ Chain[i] = attempts[Len(attempts)]
                /\ ChainSucceeded
                /\ Done => outcome = "no_result" /\ message = None /\ shown = None

\* Direct failed, Re-decoded returned "" and the request ended in no_result
C4_Witness ==
    /\ UploadRequest /\ Done
    /\ Len(Chain) = 2
    /\ Chain[2].called /\ Chain[2].ok /\ Chain[2].value = ""
    /\ outcome = "no_result"

(***************************************************************************)
(* C5: every audio input handed to the backend, by any strategy  *)
(* on either path, is canonical (mono, 16 kHz, int16, WAV).                *)
(***************************************************************************)
C5_AllInputsCanonical ==
    \A i \in Idx : attempts[i].called => Canonical(attempts[i].input)

(***************************************************************************)
(* C6: the Direct, Re-decoded and live-capture calls carry a language      *)
(* hint exactly when the selected language is not "auto", and the hint is  *)
(* the selected language; the Unhinted call carries no hint.               *)
(***************************************************************************)
C6_LanguageHint ==
    \A i \in Idx :
        attempts[i].called =>
            IF attempts[i].strategy = "Unhinted"
            THEN attempts[i].hint = None
            ELSE /\ attempts[i].hint # None <=> language # "auto"
                 /\ language # "auto" => attempts[i].hint = language

\* all three calls of one request were made with a language selected
C6_Witness ==
    /\ language = "en"
    /\ Len(attempts) = 3
    /\ \A i \in Idx : attempts[i].called
    /\ attempts[1].hint = "en" /\ attempts[2].hint = "en" /\ attempts[3].hint = None

(***************************************************************************)
(* C7: no failure of a request's acquisition, normalization or             *)
(* transcription leaves the script uncaught.                               *)
(***************************************************************************)
C7_NoUncaught == ~uncaught

(***************************************************************************)
(* C8: the backend is constructed at most once in a process lifetime and   *)
(* every backend call uses that one instance.                              *)
(***************************************************************************)
C8_ConstructedOnce ==
    /\ constructions <= 1
    /\ \A i \in Idx : attempts[i].called => attempts[i].instance = 1

(***************************************************************************)
(* C9: a live-capture request whose backend call failed reports a          *)
(* terminal failure only after the Unhinted strategy has been attempted.   *)
(***************************************************************************)
C9_RecordChain ==
    (RecordRequest /\ rec_outcome = "record_failed"
        /\ \E i \in Idx : attempts[i].strategy = "Record" /\ ~attempts[i].ok)
    => Attempted("Unhinted")

(***************************************************************************)
(* C10: without the decode capability, an upload request for a compressed  *)
(* file makes no backend call and ends in the UnsupportedFormat outcome.   *)
(***************************************************************************)
C10_UnsupportedFormat ==
    (UploadRequest /\ ~LIBROSA_AVAILABLE /\ uploaded_file.ext \in CompressedExtensions) =>
        /\ \A i \in ChainIdx : ~Chain[i].called
        /\ (Done /\ ~uncaught) => outcome = "unsupported_format"

(***************************************************************************)
(* C11: in an upload request, a backend call that returns a whitespace-    *)
(* only string ends the request in the "no transcription result" outcome,  *)
(* as the empty string does, and the string is not shown as a transcript.  *)
(***************************************************************************)
C11_WhitespaceIsNoSpeech ==
    UploadRequest =>
        \A i \in ChainIdx :
            (Chain[i].called /\ Chain[i].ok /\ Chain[i].value = " ") =>
                (Done => outcome = "no_result" /\ shown = None)

(***************************************************************************)
(* C12: capture-device availability is evaluated once at startup and not   *)
(* again per request; while the flag is false the record action is not     *)
(* offered; the upload action is offered after every run.                  *)
(***************************************************************************)
C12_GatingRecord == (Done /\ ~SOUNDDEVICE_AVAILABLE) => ~ENABLED ClickRecord

C12_UploadOffered == (Done /\ probes < MaxRuns) => ENABLED UploadFile

C12_FlagFixedAtStartup ==
    /\ probes <= 1
    /\ C12_GatingRecord
    /\ C12_UploadOffered

(***************************************************************************)
(* C13: when a request's run is over, every temporary file created for it  *)
(* has been released, so no temporary file is live between requests.       *)
(***************************************************************************)
C13_TempFilesReleased == Done => tmp_live = 0

(***************************************************************************)
(* C14: at both conversion sites, for every sample x in [-1.0, 1.0] the    *)
(* value handed to the int16 cast lies in [-32768, 32767], so the cast     *)
(* returns it unchanged (no wrap-around), also at x = 1.0 and x = -1.0.    *)
(***************************************************************************)
C14_NoWrapAround ==
    site # "none" =>
        /\ sample_raw \in Int16Min..Int16Max
        /\ sample_out = sample_raw
        /\ sample_num = sample_den => sample_out = Int16Max
        /\ sample_num = -sample_den => sample_out = -Int16Max

\* x = 1.0 converted at the Re-decoded site gives 32767
C14_Witness ==
    /\ site = "redecoded"
    /\ sample_num = sample_den
    /\ sample_out = 32767

(***************************************************************************)
(* C15: an upload transcription request that has run to its end (lines     *)
(* 98-160) shows exactly one of: a transcript, "no transcription result",  *)
(* "transcription failed"; a transcript is shown only if a backend call of *)
(* the same request returned a non-empty text, and that text is the one    *)
(* shown.                                                                  *)
(***************************************************************************)
ChainCompleted == UploadRequest /\ Done /\ ~uncaught

C15_ThreeOutcomes ==
    ChainCompleted =>
        LET t == shown # None
            n == outcome = "no_result"
            f == message # None
        IN  /\ outcome \in {"transcript", "no_result", "failed"}
            /\ t \/ n \/ f
            /\ ~(t /\ n) /\ ~(t /\ f) /\ ~(n /\ f)
            /\ t <=> outcome = "transcript"
            /\ f <=> outcome = "failed"
            /\ t => \E i \in ChainIdx : /\ Chain[i].called /\ Chain[i].ok
                                        /\ Chain[i].value # ""
                                        /\ Chain[i].value = shown

\* two approaches failed, the third returned "hello", which is shown
C15_Witness ==
    /\ ChainCompleted
    /\ Len(Chain) = 3
    /\ outcome = "transcript" /\ shown = "hello" /\ message = None
    /\ Chain[3].value = "hello"

(***************************************************************************)
(* C16 as amended: a request makes at most three backend calls when it is  *)
(* an upload transcription and at most one when it is a recording (a run   *)
(* in which both buttons are pressed holds one request of each kind); an   *)
(* upload transcription that has run to its end has made at least one; no  *)
(* strategy is attempted twice in a request; and once the first strategy   *)
(* of an upload transcription (or the capture of a recording) has started, *)
(* the request's outcome is displayed or a widget interaction starts a new *)
(* run of the script.                                                      *)
(***************************************************************************)
\* line 114, 129, 138: the backend calls of the run's upload request
UploadCalls == Cardinality({i \in ChainIdx : Chain[i].called})

\* line 67: the backend calls of the run's recording
RecordCalls == Cardinality({i \in Idx : ~IsChainAttempt(attempts[i]) /\ attempts[i].called})

C16_Counts ==
    /\ \A i, j \in Idx : i # j => attempts[i].strategy # attempts[j].strategy
    /\ UploadCalls <= 3
    /\ RecordCalls <= 1
    /\ ChainCompleted => UploadCalls >= 1
    /\ ~UploadRequest => Len(Chain) = 0
    /\ ~RecordRequest => Len(Chain) = Len(attempts)

\* a widget interaction has started a new run: it is at its first line and
\* the run that was in progress executes nothing more
Abandoned == pc = "probe"

\* line 148, 150, 153: the run has displayed the outcome of its upload request
UploadTerminal ==
    UploadCalls \in 1..3 /\ outcome \in {"transcript", "no_result", "failed"}

\* line 69, 71: the run has displayed the outcome of its recording
RecordTerminal ==
    RecordCalls <= 1 /\ rec_outcome \in {"transcript", "record_failed"}

C16_BoundedAndTerminates ==
    /\ []C16_Counts
    /\ (pc = "direct") ~> (UploadTerminal \/ Abandoned)
    /\ (pc = "rec_capture") ~> (RecordTerminal \/ Abandoned)

\* an upload request whose first strategy has started displays its outcome
C16_UploadTerminates == (pc = "direct") ~> UploadTerminal

\* a recording whose capture has started displays its outcome
C16_RecordTerminates == (pc = "rec_capture") ~> RecordTerminal

(***************************************************************************)
(* C16 as stated: every transcription request reaches a terminal outcome,  *)
(* after at least one and at most three backend calls for an upload and at *)
(* most one for a recording.                                               *)
(***************************************************************************)
C16_EveryRequestTerminates ==
    /\ C16_UploadTerminates
    /\ C16_RecordTerminates

\* both buttons were pressed: the recording made its one call, the three
\* strategies were called once each and the upload request ended in failure
C16_Witness ==
    /\ ChainCompleted
    /\ RecordRequest
    /\ RecordCalls = 1
    /\ UploadCalls = 3
    /\ outcome = "failed"

====
